---------------------------- MODULE Spec2Model ----------------------------
(***************************************************************************)
(* The agent orchestration engine of the AI code editor backend:           *)
(*   - server/agents.py  : pick_model, ask, run_flow (the handler that is  *)
(*     registered first for POST /agents/run_flow, lines 102-138)          *)
(*   - server/memory.py  : ConversationMemory                              *)
(*   - server/tools.py   : run_tool and the tool registry                  *)
(* and the endpoints around it:                                            *)
(*   - server/main.py, server/ws_ai.py : the websocket path /ws/ai         *)
(*   - server/system_router.py, server/utils/security.py : /system/run     *)
(*                                                                         *)
(* Python values are modelled as follows.  A str is a TLA+ string.  The    *)
(* content of a memory entry is a tagged record: [type |-> "str", text]    *)
(* for text, [type |-> "dict", ...] for a mapping.  A call that may raise  *)
(* yields [kind |-> "ok", ...] or [kind |-> <exception class>].            *)
(* A name used by a function is looked up in the globals of the module     *)
(* that defines the function, as Python does at call time.                 *)
(***************************************************************************)
EXTENDS Integers, Sequences, FiniteSets, TLC

\* ------------------------------------------------------------------ bounds
\* longest plan the planner returns
MaxSteps == 3
\* longest entry log a Memory client builds
MaxMessages == 3
\* most texts a websocket client sends on one connection
MaxWsMessages == 2
\* most arguments a /system/run request holds
MaxArgs == 2

\* --------------------------------------------------------------- constants
\* memory.py:16  def get_context(self, max_tokens: int = 4096)
DefaultMaxTokens == 4096
\* utils/security.py:196  sanitize_input(prompt, max_length=50000)
InputLengthLimit == 50000

None == "None"

VARIABLES
    \* one run of run_flow
    pc,             \* "start" | "ask_planner" | "done"
    planner_model,  \* result of pick_model("planner")
    plan_response,  \* raw text returned by the planner's ask(), or None
    response,       \* what the caller of run_flow receives
    calls,          \* collaborators called by the run, in order
    replies,        \* what the provider does on the ask() of each step
    \* one ConversationMemory object used by a client
    system_prompt,  \* constructor argument
    messages,       \* self.messages
    stale,          \* per entry: was it in the log before the last clear()
    dropped,        \* number of entries the last clear() discarded
    lastCall,       \* "init" | "add" | "get" | "clear"
    budget,         \* max_tokens of the last get_context
    ctx,            \* outcome of the last get_context
    \* one call of run_tool
    toolName,       \* argument name
    toolArgs,       \* argument args
    toolResult,     \* what the caller of run_tool gets
    \* the dispatch of one role step (agents.py:131-135)
    roleStep,       \* the step st of the plan
    stepNumber,     \* its number i in the plan
    rolePrompt,     \* the prompt passed to ask() for it
    \* two requests to POST /agents/run_flow in flight
    runs,           \* per request: its locals and what its caller receives
    \* one connection to the websocket path /ws/ai
    wsEndpoint,     \* the endpoint function the connection is routed to
    wsInbox,        \* the texts the client has sent, not yet received
    wsSent,         \* the messages the server has sent, in order
    wsState,        \* "connecting" | "open" | "closed"
    \* one request to POST /system/run
    sysCfg,         \* what load_cfg() returns
    sysReq,         \* the request: its query parameters and its JSON body
    sysRes,         \* the response
    spawned,        \* the argument lists subprocess.run was called with
    \* one call of pick_model(role)
    pickRole,       \* the role argument
    pickMeta,       \* what GET /ai/meta answers
    pickResult,     \* what the call returns
    \* one request to ai_route
    routeCfg,       \* what load_cfg() returns
    routeReq,       \* the request: how it arrives, query parameters, body
    routeEnv,       \* stored keys, cache entry, what the providers answer
    routeRes,       \* the response
    routeCalls,     \* the providers a completion was requested from, in order
    \* the watcher of git_sync.py and the requests to git_watch
    gitRepo,        \* git.repoPath of the configuration
    observer,       \* the global _observer: None or the Observer object
    observersActive,\* Observer threads started and not stopped
    tickers,        \* per thread started at line 277: where it stands
    last_event_ts,  \* the global _last_event_ts (0 for 0.0)
    gitNow,         \* time.time(), in seconds
    pushes,         \* calls of do_commit_push by tick_auto since the last event
    gitRes,         \* the response to the latest request
    watchRequests   \* the number of requests made

flowVars == <<pc, planner_model, plan_response, response, calls, replies>>
memVars == <<system_prompt, messages, stale, dropped, lastCall, budget, ctx>>
toolVars == <<toolName, toolArgs, toolResult>>
roleVars == <<roleStep, stepNumber, rolePrompt>>
wsVars == <<wsEndpoint, wsInbox, wsSent, wsState>>
sysVars == <<sysCfg, sysReq, sysRes, spawned>>
pickVars == <<pickRole, pickMeta, pickResult>>
routeVars == <<routeCfg, routeReq, routeEnv, routeRes, routeCalls>>
gitVars == <<gitRepo, observer, observersActive, tickers, last_event_ts,
             gitNow, pushes, gitRes, watchRequests>>
restVars == <<pickVars, routeVars, gitVars>>
vars == <<pc, planner_model, plan_response, response, calls, replies,
          system_prompt, messages, stale, dropped, lastCall, budget, ctx,
          toolName, toolArgs, toolResult, roleStep, stepNumber, rolePrompt,
          runs, wsEndpoint, wsInbox, wsSent, wsState,
          sysCfg, sysReq, sysRes, spawned,
          pickRole, pickMeta, pickResult,
          routeCfg, routeReq, routeEnv, routeRes, routeCalls,
          gitRepo, observer, observersActive, tickers, last_event_ts,
          gitNow, pushes, gitRes, watchRequests>>
\* the variables a run of run_flow leaves alone, and those a Memory client does
notFlowVars == <<memVars, toolVars, roleVars, runs, wsVars, sysVars, restVars>>
notMemVars == <<flowVars, toolVars, roleVars, runs, wsVars, sysVars, restVars>>

\* ------------------------------------------------------- module namespaces
\* Names bound at module level in server/agents.py (imports, defs, tables).
AgentsGlobals ==
    {"json", "APIRouter", "HTTPException", "BaseModel", "List", "Optional",
     "Dict", "Any", "httpx", "torch", "harmonize_tensors", "safe_matmul",
     "AVAILABLE_TOOLS", "run_tool", "router", "get_planner_prompt",
     "ROLE_PROMPTS", "PlanReq", "FlowRes", "pick_model", "ask", "run_flow"}

\* Names bound at module level in server/memory.py.
MemoryGlobals == {"List", "Dict", "Any", "ConversationMemory"}

Ok(v) == [kind |-> "ok", value |-> v]
Raise(e) == [kind |-> e]

Str(s) == [type |-> "str", text |-> s]

Range(s) == {s[i] : i \in 1..Len(s)}

\* dict.get(key, default)
Get(d, k, default) == IF k \in DOMAIN d THEN d[k] ELSE default


\* ----------------------------------------------------- ConversationMemory
\* A method is a function of the object's state and its arguments that yields
\* the returned value (ret) and the object's state after the call (messages).

\* ConversationMemory.__init__
ConversationMemory(prompt) ==
    IF prompt # "" THEN <<[role |-> "system", content |-> Str(prompt)]>>
    ELSE <<>>

\* ConversationMemory.add_message
add_messageVariantPrepends(msgs, role, content) ==
    [ret |-> None,
     messages |-> <<[role |-> role, content |-> content]>> \o msgs]
add_message(msgs, role, content) ==
    [ret |-> None,
     messages |-> Append(msgs, [role |-> role, content |-> content])]

\* json.dumps(content, indent=2): the mapping's indented serialization
\* of a mapping that holds a value json cannot encode: TypeError
json_dumps(content) ==
    IF "dumped" \in DOMAIN content THEN Ok(content.dumped)
    ELSE Raise("TypeError")

\* lines 26-28: str(content), replaced by the json form for a dict or a list;
\* the name json is looked up in the globals of memory.py
content_str(content) ==
    IF content.type \in {"dict", "list"}
    THEN IF "json" \in MemoryGlobals
         THEN LET d == json_dumps(content) IN
              IF d.kind = "ok" THEN Ok("json\n" \o d.value) ELSE d
         ELSE Raise("NameError")
    ELSE Ok(content.text)

\* line 30
formatted_msg(role, cstr) == "\n\n[" \o role \o "]\n" \o cstr

\* line 24: the entries the rendering skips
SkippedVariantAll(msg) == FALSE
Skipped(msg) == msg.role = "system"

\* line 33: the budget test that ends the walk
OverBudget(context_str, formatted, max_tokens) ==
    Len(context_str) + Len(formatted) > max_tokens

\* lines 23-38: the loop over reversed(self.messages), entry i downto 1
RECURSIVE Walk(_, _, _, _)
Walk(msgs, i, context_str, max_tokens) ==
    IF i = 0 THEN Ok(context_str)
    ELSE IF Skipped(msgs[i]) THEN Walk(msgs, i - 1, context_str, max_tokens)
    ELSE LET c == content_str(msgs[i].content) IN
         IF c.kind # "ok" THEN c
         ELSE LET f == formatted_msg(msgs[i].role, c.value) IN
              IF OverBudget(context_str, f, max_tokens) THEN Ok(context_str)
              ELSE Walk(msgs, i - 1, f \o context_str, max_tokens)

\* ConversationMemory.get_context
get_contextVariantReverses(msgs, max_tokens) ==
    [ret |-> Walk(msgs, Len(msgs), "", max_tokens),
     messages |-> [i \in 1..Len(msgs) |-> msgs[Len(msgs) + 1 - i]]]
get_context(msgs, max_tokens) ==
    [ret |-> Walk(msgs, Len(msgs), "", max_tokens), messages |-> msgs]

\* ConversationMemory.clear
clearVariantKeepsLast(msgs) ==
    [ret |-> None,
     messages |-> IF msgs # <<>> THEN <<msgs[Len(msgs)]>> ELSE <<>>]
clear(msgs) ==
    [ret |-> None,
     messages |-> IF msgs # <<>> /\ msgs[1].role = "system"
                  THEN <<msgs[1]>> ELSE <<>>]

\* ------------------------------------------------------------ tools.py
\* The elements of AVAILABLE_TOOLS (tools.py:131-155) are written without
\* the commas between them, so tools.py does not compile as it stands.  The
\* functions below are modelled as they run once the module loads.
\* tools.py:157-179
TOOL_IMPLEMENTATIONS ==
    {"python_code_interpreter", "read_file", "write_file", "list_directory",
     "append_to_file", "web_search", "fetch_webpage_content",
     "execute_shell_command", "make_api_request", "query_database",
     "send_email", "create_calendar_event", "get_git_status",
     "create_git_commit", "ask_user_for_clarification", "finish_task",
     "delegate_task_to_another_agent", "vector_search_documents",
     "summarize_text", "extract_entities", "generate_image"}

ToolResult(status) ==
    [type |-> "dict", status |-> status,
     dumped |-> "{\"status\": \"" \o status \o "\"}"]

\* A value a plan passes to a tool: a str, or a number.
Num(n) == [type |-> "int", text |-> n]

\* The exception classes that "except Exception" catches; SystemExit and
\* KeyboardInterrupt derive from BaseException only.
ExceptionClasses ==
    {"ZeroDivisionError", "TypeError", "FileNotFoundError", "NameError",
     "HTTPStatusError", "JSONDecodeError", "AttributeError"}

\* exec(code) under redirect_stdout: what the program does
Exec(code) ==
    IF code = "1/0" THEN Raise("ZeroDivisionError")
    ELSE IF code = "raise SystemExit(3)" THEN Raise("SystemExit")
    ELSE Ok("1\n")

\* tools.py:18-29
python_code_interpreter(code) ==
    IF code.type # "str"
    THEN Ok([type |-> "dict", error |-> "Code must be a string.",
             dumped |-> "{\"error\": \"Code must be a string.\"}"])
    ELSE LET r == Exec(code.text) IN
         IF r.kind = "ok" THEN Ok(ToolResult("success"))
         ELSE IF r.kind \in ExceptionClasses THEN Ok(ToolResult("error"))
         ELSE r

\* the paths that exist on the host
Files == {"notes.txt"}

\* tools.py:31-52: read_file, write_file, list_directory
FileTool(path) ==
    IF path.type = "str" /\ path.text \in Files THEN Ok(ToolResult("success"))
    ELSE Ok(ToolResult("error"))

\* tools.py:54-81: web_search, fetch_webpage_content on a host that is offline
WebTool == Ok(ToolResult("error"))

\* tools.py:111-112
finish_task(final_answer) == Ok(ToolResult("success"))

\* tools.py:84-127: the placeholder implementations
Placeholder == Ok(ToolResult("not_implemented"))

\* the parameters of each function of TOOL_IMPLEMENTATIONS: those without a
\* default value, and all of them
Required ==
    [python_code_interpreter |-> {"code"}, read_file |-> {"path"},
     write_file |-> {"path", "content"}, list_directory |-> {"path"},
     append_to_file |-> {"path", "content"}, web_search |-> {"query"},
     fetch_webpage_content |-> {"url"}, execute_shell_command |-> {"command"},
     make_api_request |-> {"method", "url"}, query_database |-> {"sql_query"},
     send_email |-> {"recipient", "subject", "body"},
     create_calendar_event |-> {"title", "start_time", "end_time"},
     get_git_status |-> {}, create_git_commit |-> {"message"},
     ask_user_for_clarification |-> {"question"},
     finish_task |-> {"final_answer"},
     delegate_task_to_another_agent |-> {"agent_name", "task_description"},
     vector_search_documents |-> {"query"}, summarize_text |-> {"text"},
     extract_entities |-> {"text"}, generate_image |-> {"prompt"}]
Accepted ==
    [n \in TOOL_IMPLEMENTATIONS |->
        Required[n] \cup (IF n = "make_api_request" THEN {"params", "body"}
                          ELSE IF n = "create_calendar_event" THEN {"attendees"}
                          ELSE {})]

\* tool_function(**args): a keyword mismatch raises TypeError
CallTool(name, args) ==
    IF ~(Required[name] \subseteq DOMAIN args /\ DOMAIN args \subseteq Accepted[name])
    THEN Raise("TypeError")
    ELSE IF name = "python_code_interpreter" THEN python_code_interpreter(args.code)
    ELSE IF name \in {"read_file", "write_file", "list_directory"}
         THEN FileTool(args.path)
    ELSE IF name \in {"web_search", "fetch_webpage_content"} THEN WebTool
    ELSE IF name = "finish_task" THEN finish_task(args.final_answer)
    ELSE Placeholder

\* tools.py:131-155: the names of the tools the planner prompt enumerates
AVAILABLE_TOOLS ==
    {"python_code_interpreter", "calculate_classification_metrics",
     "read_file", "write_file", "list_directory", "append_to_file",
     "web_search", "fetch_webpage_content", "execute_shell_command",
     "make_api_request", "query_database", "send_email",
     "create_calendar_event", "get_git_status", "create_git_commit",
     "ask_user_for_clarification", "finish_task",
     "delegate_task_to_another_agent", "vector_search_documents",
     "summarize_text", "extract_entities", "generate_image"}

\* tools.py:185: {"status": "error", "error_message": "Tool '<name>' not found."}
ToolNotFound ==
    [type |-> "dict", status |-> "error", error_message |-> "not found",
     dumped |-> "{\"status\": \"error\", \"error_message\": \"not found\"}"]

\* tools.py:182-191
run_tool(name, args) ==
    IF name \notin TOOL_IMPLEMENTATIONS THEN Ok(ToolNotFound)
    ELSE LET r == CallTool(name, args) IN
         IF r.kind = "ok" THEN r
         ELSE IF r.kind \in ExceptionClasses THEN Ok(ToolResult("error"))
         ELSE r

\* ------------------------------------------------------------ agents.py
\* agents.py:69-73
ROLE_PROMPTS ==
    [writer |-> "You are a senior software engineer. Be concise, show code blocks when needed.",
     reviewer |-> "You are a code reviewer. Point out issues and suggest diffs/patches.",
     tester |-> "You are a QA/tester. Provide reproducible steps and lightweight tests."]

Fallback == "dolphin-phi:latest"

\* what GET /ai/meta answers: no usable answer, or the available models and
\* the model configured for each role (None where a role has none)
Models == {"llama3", "phi3"}
RoleKeys == {"planner", "general", "completion"}
MetaInputs ==
    {[ok |-> FALSE]} \cup
    {[ok |-> TRUE, available |-> a, roles |-> r] :
        a \in {<<>>, <<"llama3">>, <<"phi3", "llama3">>},
        r \in [RoleKeys -> Models \cup {None}]}

\* str.lower() on the roles a client names
Lower(role) == IF role = "Planner" THEN "planner" ELSE role

\* a value that is false in a condition: None or the empty string
Falsy(v) == v \in {None, ""}

\* agents.py:84-94
pick_modelVariantFirstAvailable(role, meta) ==
    IF ~meta.ok THEN Fallback
    ELSE IF meta.available # <<>> THEN meta.available[1]
    ELSE Fallback
pick_model(role, meta) ==
    IF ~meta.ok THEN Fallback
    ELSE LET asked == SelectSeq(<<role, "planner", "general", "completion">>,
                                LAMBDA r : ~Falsy(r))
             pref0 == [i \in 1..Len(asked) |->
                          Get(meta.roles, Lower(asked[i]), None)]
             pref == SelectSeq(pref0, LAMBDA m : ~Falsy(m))
             hits == SelectSeq(pref, LAMBDA m : m \in Range(meta.available))
         IN IF hits # <<>> THEN hits[1]
            ELSE IF meta.available # <<>> THEN meta.available[1]
            ELSE IF pref # <<>> THEN pref[1]
            ELSE Fallback

\* The steps a plan may hold: tool steps and role steps.
ToolSteps ==
    {[tool_call |-> [name |-> "python_code_interpreter",
                     args |-> [code |-> Str("print(1)")]]],
     [tool_call |-> [name |-> "python_code_interpreter",
                     args |-> [code |-> Str("1/0")]]],
     [tool_call |-> [name |-> "calculate_classification_metrics",
                     args |-> [y_true |-> Str("[1]"), y_pred |-> Str("[1]")]]]}
RoleSteps == {[role |-> r, instruction |-> "explain"] : r \in {"writer", "qa"}}
Steps == ToolSteps \cup RoleSteps

StepSeqs == UNION {[1..n -> Steps] : n \in 0..MaxSteps}

\* The value a JSON text denotes: an array, or an object with its members.
JsonValues ==
    {[type |-> "list", dumped |-> "[]"],
     [type |-> "dict", members |-> [note |-> "none"], dumped |-> "{note}"]}
    \cup {[type |-> "dict", members |-> [steps |-> s], dumped |-> "{steps}"] :
             s \in StepSeqs}

\* The raw text the planner model answers with: a body that is JSON text or
\* other text, bare, inside a code fence, inside a json code fence, or after
\* a sentence of prose.
Bodies == {[kind |-> "text"]} \cup {[kind |-> "json", value |-> v] : v \in JsonValues}
PlannerResponses ==
    {[wrap |-> w, body |-> b] : w \in {"none", "fence", "jsonfence", "prose"},
                                b \in Bodies}

\* what ask() does: the model's text, or a provider error
AskOutcomes == {Ok("Done."), Raise("HTTPStatusError")}

\* line 110: strip(), drop newlines, drop the fence marks
Clean(text) == [prose |-> text.wrap = "prose", body |-> text.body]

\* line 111: json.loads
json_loads(cleaned) ==
    IF ~cleaned.prose /\ cleaned.body.kind = "json"
    THEN Ok(cleaned.body.value)
    ELSE Raise("JSONDecodeError")

\* line 115: HTTPException(500, f"Planner failed: {e}. Response was: {plan_response}")
PlannerFailedVariantCleaned(e, raw) ==
    [kind |-> "HTTPException", status_code |-> 500,
     detail |-> [text |-> "Planner failed", cause |-> e,
                 response_was |-> [wrap |-> "none", body |-> raw.body]]]
PlannerFailed(e, raw) ==
    [kind |-> "HTTPException", status_code |-> 500,
     detail |-> [text |-> "Planner failed", cause |-> e, response_was |-> raw]]

\* line 113: if not steps
NoStepsVariantNever(steps) == FALSE
NoSteps(steps) == steps = <<>>

\* lines 108-115, once ask() has returned plan_response
Planning(raw) ==
    LET parsed == json_loads(Clean(raw)) IN
    IF parsed.kind # "ok" THEN PlannerFailed(parsed.kind, raw)
    ELSE IF parsed.value.type # "dict" THEN PlannerFailed("AttributeError", raw)
    ELSE LET steps == Get(parsed.value.members, "steps", <<>>) IN
         IF NoSteps(steps) THEN PlannerFailed("HTTPException(400)", raw)
         ELSE [kind |-> "ok", plan_data |-> parsed.value, steps |-> steps]

FlowRes(model, transcript) ==
    [kind |-> "FlowRes", model |-> model, transcript |-> transcript]

Goal == "Calculate the square root of 256 and explain it"

\* line 132: role = st.get("role", "writer")
StepRole(st) == Get(st, "role", "writer")

\* line 133: sys_prompt = ROLE_PROMPTS.get(role, "")
SysPrompt(role) == Get(ROLE_PROMPTS, role, "")

\* line 134: the parts the prompt of role step i is formatted from
RolePrompt(st, i, context) ==
    [sys_prompt |-> SysPrompt(StepRole(st)), goal |-> Goal,
     history |-> context, role |-> StepRole(st), number |-> i,
     instruction |-> Get(st, "instruction", "")]

\* lines 123-138: the loop over the steps, from step i on, and the return.
\* asks[i] is what ask() does for step i.  An exception leaves run_flow.
RECURSIVE RunSteps(_, _, _, _, _, _)
RunSteps(steps, i, msgs, cs, execution_model, asks) ==
    IF i > Len(steps)
    THEN [response |-> FlowRes(execution_model, msgs), calls |-> cs]
    ELSE
    LET st == steps[i]
        context == get_context(msgs, DefaultMaxTokens)
    IN
    IF context.ret.kind # "ok"
    THEN [response |-> Raise(context.ret.kind), calls |-> cs]
    ELSE IF "tool_call" \in DOMAIN st
    THEN LET tool_name == Get(st.tool_call, "name", None)
             tool_args == Get(st.tool_call, "args", <<>>)
             result == run_tool(tool_name, tool_args)
             ran == Append(cs, [fn |-> "run_tool", name |-> tool_name,
                                args |-> tool_args])
         IN IF result.kind # "ok"
            THEN [response |-> Raise(result.kind), calls |-> ran]
            ELSE RunSteps(steps, i + 1,
                          add_message(context.messages,
                                      "tool_output:" \o tool_name,
                                      result.value).messages,
                          ran, execution_model, asks)
    ELSE LET role == StepRole(st)
             prompt == RolePrompt(st, i, context.ret.value)
             asked == Append(cs, [fn |-> "ask", model |-> execution_model,
                                  prompt |-> prompt])
         IN IF asks[i].kind # "ok"
            THEN [response |-> Raise(asks[i].kind), calls |-> asked]
            ELSE RunSteps(steps, i + 1,
                          add_message(context.messages, role,
                                      Str(asks[i].value)).messages,
                          asked, execution_model, asks)

\* lines 117-138: the outcomes the execution stage can have after a plan was
\* parsed, one for each answer of /ai/meta to pick_model("general").
\* ConversationMemory is looked up in the globals of agents.py.
ExecutionStage(plan, cs, asks) ==
    IF "ConversationMemory" \notin AgentsGlobals
    THEN {[response |-> Raise("NameError"), calls |-> cs]}
    ELSE {RunSteps(plan.steps, 1,
                   add_message(ConversationMemory(""), "planner",
                               plan.plan_data).messages,
                   cs \o <<[fn |-> "ConversationMemory"],
                           [fn |-> "pick_model", role |-> "general"]>>,
                   pick_model("general", meta), asks) : meta \in MetaInputs}

\* ------------------------------------------- a client of ConversationMemory
SystemPrompts == {"", "Be brief."}
MemRoles == {"user", "system"}
Contents ==
    {Str("a"), Str("bbbbbbbb"), [type |-> "dict", dumped |-> "{}"]}
Budgets == {0, 10, 20, 27, DefaultMaxTokens}

NoCtx == [kind |-> "none"]
NoResponse == [kind |-> "none"]
Unbound == [wrap |-> "unbound"]

MemIdle ==
    /\ system_prompt = ""
    /\ messages = <<>>
    /\ stale = <<>>
    /\ dropped = 0
    /\ lastCall = "init"
    /\ budget = 0
    /\ ctx = NoCtx

FlowIdle ==
    /\ pc = "idle"
    /\ planner_model = None
    /\ plan_response = Unbound
    /\ response = NoResponse
    /\ calls = <<>>
    /\ replies = <<>>

ToolIdle ==
    /\ toolName = None
    /\ toolArgs = [kind |-> "none"]
    /\ toolResult = NoResponse

RoleIdle ==
    /\ roleStep = [kind |-> "none"]
    /\ stepNumber = 0
    /\ rolePrompt = NoResponse

ConcIdle == runs = <<>>

WsIdle ==
    /\ wsEndpoint = None
    /\ wsInbox = <<>>
    /\ wsSent = <<>>
    /\ wsState = "idle"

SysIdle ==
    /\ sysCfg = [kind |-> "none"]
    /\ sysReq = [kind |-> "none"]
    /\ sysRes = NoResponse
    /\ spawned = <<>>

PickIdle ==
    /\ pickRole = None
    /\ pickMeta = [ok |-> FALSE]
    /\ pickResult = NoResponse

RouteIdle ==
    /\ routeCfg = [kind |-> "none"]
    /\ routeReq = [kind |-> "none"]
    /\ routeEnv = [kind |-> "none"]
    /\ routeRes = NoResponse
    /\ routeCalls = <<>>

GitIdle ==
    /\ gitRepo = ""
    /\ observer = None
    /\ observersActive = 0
    /\ tickers = <<>>
    /\ last_event_ts = 0
    /\ gitNow = 0
    /\ pushes = 0
    /\ gitRes = NoResponse
    /\ watchRequests = 0

RestIdle == PickIdle /\ RouteIdle /\ GitIdle

\* memory = ConversationMemory(system_prompt)
MemInit ==
    /\ system_prompt \in SystemPrompts
    /\ messages = ConversationMemory(system_prompt)
    /\ stale = [i \in 1..Len(messages) |-> FALSE]
    /\ dropped = 0
    /\ lastCall = "init"
    /\ budget = 0
    /\ ctx = NoCtx
    /\ FlowIdle /\ ToolIdle /\ RoleIdle /\ ConcIdle /\ WsIdle /\ SysIdle /\ RestIdle

\* memory.add_message(role, content)
AddMessage ==
    /\ Len(messages) < MaxMessages
    /\ \E role \in MemRoles, content \in Contents :
          messages' = add_message(messages, role, content).messages
    /\ stale' = Append(stale, FALSE)
    /\ lastCall' = "add"
    /\ UNCHANGED <<system_prompt, dropped, budget, ctx>>
    /\ UNCHANGED notMemVars

\* ctx = memory.get_context(max_tokens); "get_again" marks a call that
\* repeats the budget of the call just before it
GetContext ==
    /\ \E max_tokens \in Budgets :
          LET r == get_context(messages, max_tokens) IN
          /\ ctx' = r.ret
          /\ messages' = r.messages
          /\ budget' = max_tokens
          /\ lastCall' = IF lastCall \in {"get", "get_again"}
                            /\ budget = max_tokens
                         THEN "get_again" ELSE "get"
    /\ UNCHANGED <<system_prompt, stale, dropped>>
    /\ UNCHANGED notMemVars

\* memory.clear()
Clear ==
    /\ LET r == clear(messages) IN
          /\ messages' = r.messages
          /\ stale' = [i \in 1..Len(r.messages) |-> TRUE]
          /\ dropped' = Len(messages) - Len(r.messages)
    /\ lastCall' = "clear"
    /\ UNCHANGED <<system_prompt, budget, ctx>>
    /\ UNCHANGED notMemVars

MemNext == AddMessage \/ GetContext \/ Clear

MemSpec == MemInit /\ [][MemNext]_vars

\* ------------------------------------------------ properties of the Memory
IsGet == lastCall \in {"get", "get_again"}

\* The role-tagged block of one entry, as section 4.1 of the design describes
\* it: text as it is, structured content in its indented serialization.
Block(e) ==
    formatted_msg(e.role,
                  IF e.content.type \in {"dict", "list"}
                  THEN "json\n" \o e.content.dumped
                  ELSE e.content.text)

RECURSIVE Concat(_)
Concat(blocks) ==
    IF blocks = <<>> THEN "" ELSE Head(blocks) \o Concat(Tail(blocks))

\* the blocks of the k most recent entries of seq, in insertion order
RenderSuffix(seq, k) ==
    Concat([i \in 1..k |-> Block(seq[Len(seq) - k + i])])

NonSystem(msgs) == SelectSeq(msgs, LAMBDA e : e.role # "system")

Contains(s, t) ==
    \E i \in 1..(Len(s) - Len(t) + 1) : SubSeq(s, i, i + Len(t) - 1) = t

\* C6: get_context leaves the entry log as it found it, and a call that
\* repeats the budget of the call just before it, with no other call in
\* between, has the same outcome as that call.
C6_RenderIdempotent ==
    [][(lastCall' \in {"get", "get_again"})
         => /\ messages' = messages
            /\ (lastCall' = "get_again" => ctx' = ctx)]_vars

C6_Witness ==
    /\ lastCall = "get_again"
    /\ ctx.kind = "ok"
    /\ ctx.value # ""
    /\ dropped > 0
    /\ Len(messages) >= 2

\* C7: whenever the budget is smaller than the full rendered history,
\* get_context returns a string that is the concatenation, in insertion
\* order, of the blocks of the k most recent non-system entries for some k,
\* and that string is no longer than the budget.
C7_SuffixCompleteWithinBudget ==
    (IsGet /\ budget < Len(RenderSuffix(NonSystem(messages),
                                        Len(NonSystem(messages)))))
      => /\ ctx.kind = "ok"
         /\ Len(ctx.value) <= budget
         /\ \E k \in 0..Len(NonSystem(messages)) :
               ctx.value = RenderSuffix(NonSystem(messages), k)

\* C8: for a Memory constructed with a system prompt, no string returned by
\* get_context contains the block of the seeded system-prompt entry.
C8_SystemPromptNotRendered ==
    (system_prompt # "" /\ IsGet /\ ctx.kind = "ok")
      => ~Contains(ctx.value, formatted_msg("system", system_prompt))

C8_Witness ==
    /\ system_prompt # ""
    /\ IsGet
    /\ budget = DefaultMaxTokens
    /\ ctx.kind = "ok"
    /\ Len(NonSystem(messages)) >= 2
    /\ ctx.value = RenderSuffix(NonSystem(messages), Len(NonSystem(messages)))

\* the entries added since the last clear() that the rendering does not skip
Fresh ==
    LET idx == SelectSeq([i \in 1..Len(messages) |-> i],
                         LAMBDA i : ~stale[i] /\ messages[i].role # "system")
    IN [j \in 1..Len(idx) |-> messages[idx[j]]]

C22_MostRecentAlwaysIncluded ==
    (IsGet /\ Len(NonSystem(messages)) >= 1)
      => /\ ctx.kind = "ok"
         /\ \E k \in 1..Len(NonSystem(messages)) :
               ctx.value = RenderSuffix(NonSystem(messages), k)

\* C23: right after clear() the log is what the constructor built from the
\* system prompt: that one entry, or nothing.
C23_ClearRestoresConstruction ==
    (lastCall = "clear") => messages = ConversationMemory(system_prompt)

IsPrefix(s, t) == Len(s) <= Len(t) /\ SubSeq(t, 1, Len(s)) = s

\* C24: every call other than clear() leaves the log it found as a prefix
\* of the log it leaves, and add_message leaves exactly one entry more.
C24_AppendOnly ==
    [][(lastCall' # "clear")
         => /\ IsPrefix(messages, messages')
            /\ (lastCall' = "add" => Len(messages') = Len(messages) + 1)]_vars

C24_Witness ==
    /\ lastCall = "add"
    /\ Len(messages) = MaxMessages
    /\ dropped = 0
    /\ messages[1].role = "system"
    /\ messages[2].content # messages[3].content

\* ---------------------------------- get_context on a log of any contents
\* A log as add_message can have built it: any content is accepted, so an
\* entry may hold a mapping or a list with a value json cannot encode
\* (str is what str(content) gives for it).
MaxRendered == 2
Unserializable ==
    {[type |-> "dict", str |-> "{'f': <object object at 0x7f>}"],
     [type |-> "list", str |-> "[{1, 2}]"]}
RenderContents == Contents \cup Unserializable
RenderLogs ==
    UNION {[1..n -> {[role |-> r, content |-> c] :
                        r \in MemRoles, c \in RenderContents}] :
              n \in 0..MaxRendered}

RenderInit ==
    /\ system_prompt \in SystemPrompts
    /\ \E log \in RenderLogs :
          /\ messages = ConversationMemory(system_prompt) \o log
          /\ stale = [i \in 1..Len(messages) |-> FALSE]
    /\ dropped = 0
    /\ lastCall = "add"
    /\ budget = 0
    /\ ctx = NoCtx
    /\ FlowIdle /\ ToolIdle /\ RoleIdle /\ ConcIdle /\ WsIdle /\ SysIdle /\ RestIdle

RenderSpec == RenderInit /\ [][GetContext]_vars

HoldsUnserializable ==
    \E i \in 1..Len(messages) :
        /\ ~Skipped(messages[i])
        /\ messages[i].content \in Unserializable

\* C27: get_context returns a string whatever the contents of the entries
\* are: on a log with an entry whose mapping or list cannot be serialized
\* the call does not raise, and with a budget that fits everything the
\* string holds the str() form of that entry.
C27_UnserializableRenderedAsText ==
    (IsGet /\ HoldsUnserializable)
      => /\ ctx.kind = "ok"
         /\ budget = DefaultMaxTokens
              => \A i \in 1..Len(messages) :
                    (~Skipped(messages[i])
                       /\ messages[i].content \in Unserializable)
                      => Contains(ctx.value, messages[i].content.str)

\* ------------------------------------------------- one call of pick_model
\* The roles a caller names, and the answers of GET /ai/meta: no usable
\* answer (no connection, no JSON), or the installed models and the table
\* of the model configured for each role (None for null, "" for empty).
MaxAvailable == 2
PickRoles == {None, "", "planner", "Planner", "general", "completion", "writer"}
PickModels == {"llama3", "phi3", "mistral"}
PickAvailables ==
    {a \in UNION {[1..n -> PickModels] : n \in 0..MaxAvailable} :
        \A i, j \in 1..Len(a) : a[i] = a[j] => i = j}
PickMetas ==
    {[ok |-> FALSE]} \cup
    {[ok |-> TRUE, available |-> a, roles |-> r] :
        a \in PickAvailables,
        r \in [RoleKeys -> {None, "", "llama3", "phi3"}]}

PickInit ==
    /\ pickRole \in PickRoles
    /\ pickMeta \in PickMetas
    /\ pickResult = NoResponse
    /\ FlowIdle /\ MemIdle /\ ToolIdle /\ RoleIdle /\ ConcIdle /\ WsIdle
    /\ SysIdle /\ RouteIdle /\ GitIdle

\* pickResult = await pick_model(pickRole)
PickModel ==
    /\ pickResult = NoResponse
    /\ pickResult' = Ok(pick_model(pickRole, pickMeta))
    /\ UNCHANGED <<pickRole, pickMeta>>
    /\ UNCHANGED <<flowVars, memVars, toolVars, roleVars, runs, wsVars, sysVars>>
    /\ UNCHANGED <<routeVars, gitVars>>

PickSpec == PickInit /\ [][PickModel]_vars

\* the order in which the configured models are preferred
PickChain == <<pickRole, "planner", "general", "completion">>
\* the model configured for the i-th role of the chain, None if there is none
Configured(i) ==
    IF Falsy(PickChain[i]) THEN None
    ELSE LET m == Get(pickMeta.roles, Lower(PickChain[i]), None)
         IN IF Falsy(m) THEN None ELSE m
PickAvailable == Range(pickMeta.available)

\* C26: pick_model returns a value for every role and every answer of
\* /ai/meta.  With a usable answer and at least one model available the
\* value is an available model: the configured model of the first role in
\* the order requested role, planner, general, completion whose configured
\* model is available, and the first available model if there is none.
\* With no usable answer, or with nothing available and nothing
\* configured, the value is "dolphin-phi:latest".
C26_PickModelTotal ==
    (pickResult # NoResponse)
      => /\ pickResult.kind = "ok"
         /\ ~pickMeta.ok => pickResult.value = Fallback
         /\ (pickMeta.ok /\ pickMeta.available # <<>>)
              => /\ pickResult.value \in PickAvailable
                 /\ \A i \in 1..4 :
                       (/\ Configured(i) \in PickAvailable
                        /\ \A j \in 1..(i - 1) :
                              Configured(j) \notin PickAvailable)
                         => pickResult.value = Configured(i)
                 /\ (\A i \in 1..4 : Configured(i) \notin PickAvailable)
                      => pickResult.value = pickMeta.available[1]
         /\ (/\ pickMeta.ok
             /\ pickMeta.available = <<>>
             /\ \A i \in 1..4 : Configured(i) = None)
              => pickResult.value = Fallback

\* the model of the requested role is configured but not installed, the
\* planner has none, and the general model is installed but is not the
\* first of the installed ones
C26_Witness ==
    /\ pickResult # NoResponse
    /\ pickMeta.ok
    /\ pickRole = "completion"
    /\ Configured(1) # None
    /\ Configured(1) \notin PickAvailable
    /\ Configured(2) = None
    /\ Configured(3) \in PickAvailable
    /\ pickMeta.available[1] # Configured(3)
    /\ pickResult.value = Configured(3)

\* ------------------------------------------------------ one run of run_flow
FlowInit ==
    /\ pc = "start"
    /\ planner_model = None
    /\ plan_response = Unbound
    /\ response = NoResponse
    /\ calls = <<>>
    /\ replies = <<>>
    /\ MemIdle /\ ToolIdle /\ RoleIdle /\ ConcIdle /\ WsIdle /\ SysIdle /\ RestIdle

\* line 105: planner_model = await pick_model("planner")
PickPlannerModel ==
    /\ pc = "start"
    /\ \E meta \in MetaInputs : planner_model' = pick_model("planner", meta)
    /\ calls' = Append(calls, [fn |-> "pick_model", role |-> "planner"])
    /\ pc' = "ask_planner"
    /\ UNCHANGED <<plan_response, response, replies>>
    /\ UNCHANGED notFlowVars

AskPlanner == [fn |-> "ask", model |-> planner_model, prompt |-> "planner"]

\* line 109 raises: the handler of line 114 formats plan_response, which was
\* never bound, and that UnboundLocalError leaves run_flow
PlannerAskFails ==
    /\ pc = "ask_planner"
    /\ calls' = Append(calls, AskPlanner)
    /\ response' = Raise("UnboundLocalError")
    /\ pc' = "done"
    /\ UNCHANGED <<planner_model, plan_response, replies>>
    /\ UNCHANGED notFlowVars

\* lines 109-115: ask() returns a text from which no step list is obtained
PlanningFails ==
    /\ pc = "ask_planner"
    /\ \E raw \in PlannerResponses :
          /\ Planning(raw).kind # "ok"
          /\ plan_response' = raw
          /\ response' = Planning(raw)
    /\ calls' = Append(calls, AskPlanner)
    /\ pc' = "done"
    /\ UNCHANGED <<planner_model, replies>>
    /\ UNCHANGED notFlowVars

\* lines 109-138: ask() returns a plan and the execution stage runs
PlanExecuted ==
    /\ pc = "ask_planner"
    /\ \E raw \in PlannerResponses :
          /\ Planning(raw).kind = "ok"
          /\ plan_response' = raw
          /\ \E asks \in [1..Len(Planning(raw).steps) -> AskOutcomes] :
                /\ replies' = asks
                /\ \E out \in ExecutionStage(Planning(raw),
                                              Append(calls, AskPlanner), asks) :
                      /\ response' = out.response
                      /\ calls' = out.calls
    /\ pc' = "done"
    /\ UNCHANGED planner_model
    /\ UNCHANGED notFlowVars

Next == PickPlannerModel \/ PlannerAskFails \/ PlanningFails \/ PlanExecuted

Spec == FlowInit /\ [][Next]_vars

\* --------------------------------------------------- properties of run_flow
\* the planner's text, cleaned as line 110 does, is a JSON object whose steps
\* list has at least one element
ValidPlan ==
    /\ plan_response.wrap \in {"none", "fence", "jsonfence"}
    /\ plan_response.body.kind = "json"
    /\ plan_response.body.value.type = "dict"
    /\ "steps" \in DOMAIN plan_response.body.value.members
    /\ Len(plan_response.body.value.members.steps) >= 1

PlanSteps == plan_response.body.value.members.steps

\* the planner answered, and its text is no JSON or yields no step
NoPlan == plan_response # Unbound /\ ~ValidPlan

IsToolStep(st) == "tool_call" \in DOMAIN st

\* the role tag of the entry a step leaves in the Memory
StepTag(st) ==
    IF IsToolStep(st) THEN "tool_output:" \o st.tool_call.name
    ELSE Get(st, "role", "writer")

ToolFails(st) ==
    /\ IsToolStep(st)
    /\ LET r == run_tool(st.tool_call.name, st.tool_call.args) IN
       r.kind = "ok" /\ "status" \in DOMAIN r.value /\ r.value.status = "error"

Returned == response.kind = "FlowRes"

OneEntryPerStep ==
    /\ Len(response.transcript) = 1 + Len(PlanSteps)
    /\ response.transcript[1].role = "planner"
    /\ \A k \in 1..Len(PlanSteps) :
          response.transcript[1 + k].role = StepTag(PlanSteps[k])

\* C1: a run whose planner response parses to n >= 1 steps returns a
\* transcript of exactly 1 + n entries.
C1_TranscriptLength ==
    (pc = "done" /\ ValidPlan)
      => (Returned /\ Len(response.transcript) = 1 + Len(PlanSteps))

\* C2: a run whose planner response is no JSON or yields no step ends with
\* the "Planner failed" error, and has called neither run_tool, nor
\* pick_model("general"), nor ask() for a step, nor created a Memory.
C2_PlanningFailureIsFatal ==
    (pc = "done" /\ NoPlan)
      => /\ response.kind = "HTTPException"
         /\ response.detail.text = "Planner failed"
         /\ \A i \in 1..Len(calls) :
               /\ calls[i].fn \notin {"run_tool", "ConversationMemory"}
               /\ calls[i].fn = "pick_model" => calls[i].role # "general"
               /\ calls[i].fn = "ask" => calls[i] = AskPlanner

C2_Witness ==
    /\ pc = "done"
    /\ plan_response.wrap = "jsonfence"
    /\ plan_response.body.kind = "json"
    /\ plan_response.body.value.type = "dict"
    /\ "steps" \in DOMAIN plan_response.body.value.members
    /\ plan_response.body.value.members.steps = <<>>
    /\ response.kind = "HTTPException"
    /\ Len(calls) = 2

\* C3: a run of a plan in which run_tool answers step i with status "error"
\* returns a transcript with one entry for every step, the entry of step i
\* holding that error result.
C3_ToolErrorContained ==
    (pc = "done" /\ ValidPlan /\ \E i \in 1..Len(PlanSteps) : ToolFails(PlanSteps[i]))
      => /\ Returned
         /\ OneEntryPerStep
         /\ \A i \in 1..Len(PlanSteps) :
               ToolFails(PlanSteps[i])
                 => response.transcript[1 + i].content =
                       run_tool(PlanSteps[i].tool_call.name,
                                PlanSteps[i].tool_call.args).value

\* C4: a run of a plan in which the provider fails the ask() of role step i
\* still returns, with one entry for every step, step i included.
C4_ProviderErrorContained ==
    (pc = "done" /\ ValidPlan
       /\ \E i \in 1..Len(PlanSteps) :
             ~IsToolStep(PlanSteps[i]) /\ replies[i].kind # "ok")
      => (Returned /\ OneEntryPerStep)

\* C5: after the run of a plan, get_context on the run's Memory returns the
\* blocks of the entries it renders in the order of the steps.
C5_RenderedInStepOrder ==
    (pc = "done" /\ ValidPlan)
      => /\ Returned
         /\ LET r == get_context(response.transcript, DefaultMaxTokens).ret IN
            /\ r.kind = "ok"
            /\ \E k \in 0..Len(response.transcript) :
                  r.value = RenderSuffix(response.transcript, k)

\* C10: a run that has a plan resolves pick_model("general") exactly once,
\* every ask() of a role step uses the model it returns, and that model is
\* returned to the caller with a transcript of one entry per step after the
\* plan entry (3 entries for a tool step followed by a writer step).
C10_OneExecutionModel ==
    (pc = "done" /\ ValidPlan)
      => /\ Returned
         /\ Cardinality({i \in 1..Len(calls) :
                           /\ calls[i].fn = "pick_model"
                           /\ calls[i].role = "general"}) = 1
         /\ \A i \in 3..Len(calls) :
               calls[i].fn = "ask" => calls[i].model = response.model
         /\ OneEntryPerStep

\* C12: a run ends with an error only when the planning stage failed; a run
\* whose planner response holds a step list returns a transcript.
C12_OnlyPlanningFails ==
    (pc = "done" /\ ~Returned) => ~ValidPlan

\* C13: when the planner response does not parse, or yields no step, the
\* error the caller receives carries the raw planner response.
C13_FailureCarriesRawResponse ==
    (pc = "done" /\ NoPlan)
      => /\ response.kind = "HTTPException"
         /\ response.detail.response_was = plan_response

C13_Witness ==
    /\ pc = "done"
    /\ plan_response.wrap = "fence"
    /\ plan_response.body.kind = "text"
    /\ response.kind = "HTTPException"
    /\ response.detail.cause = "JSONDecodeError"
    /\ response.detail.response_was = plan_response

\* the calls a run makes before its first step: pick_model("planner"), the
\* planner's ask(), ConversationMemory(), pick_model("general")
CallsBeforeSteps == 4

\* the record of the dispatch of step i
DispatchOf(i) == calls[CallsBeforeSteps + i]

\* the entry the plan leaves in the Memory, and the entry step k leaves
PlanEntry == [role |-> "planner", content |-> plan_response.body.value]
StepEntry(k) ==
    [role |-> StepTag(PlanSteps[k]),
     content |-> IF IsToolStep(PlanSteps[k])
                 THEN run_tool(PlanSteps[k].tool_call.name,
                               PlanSteps[k].tool_call.args).value
                 ELSE Str(Get(replies[k], "value", ""))]

\* the plan entry followed by the entries of steps 1..i-1
LogBefore(i) == <<PlanEntry>> \o [k \in 1..(i - 1) |-> StepEntry(k)]

\* C19: for every role step i of a plan that was run, the prompt of the step
\* was built from the rendering of exactly the plan entry and the entries of
\* steps 1..i-1, in that order.
C19_ContextReflectsEarlierSteps ==
    (pc = "done" /\ ValidPlan)
      => \A i \in 1..Len(PlanSteps) :
            ~IsToolStep(PlanSteps[i])
              => /\ Len(calls) >= CallsBeforeSteps + i
                 /\ DispatchOf(i).fn = "ask"
                 /\ DispatchOf(i).prompt.history =
                       RenderSuffix(LogBefore(i), Len(LogBefore(i)))

\* C20: a run of a plan dispatches step 1, step 2, ... each exactly once:
\* after the calls that precede the steps there is one call per step, the
\* k-th for the k-th step, and the k-th entry after the plan entry of the
\* returned transcript is the entry of the k-th step.
C20_EachStepOnceInOrder ==
    (pc = "done" /\ ValidPlan)
      => /\ Len(calls) = CallsBeforeSteps + Len(PlanSteps)
         /\ \A k \in 1..Len(PlanSteps) :
               IF IsToolStep(PlanSteps[k])
               THEN /\ DispatchOf(k).fn = "run_tool"
                    /\ DispatchOf(k).name = PlanSteps[k].tool_call.name
               ELSE /\ DispatchOf(k).fn = "ask"
                    /\ DispatchOf(k).prompt.number = k
         /\ Returned
         /\ \A k \in 1..Len(PlanSteps) :
               response.transcript[1 + k].role = StepTag(PlanSteps[k])

\* C21: a run whose planner call fails with a provider error ends with the
\* "Planner failed" error, and has made no call for a step.
C21_PlannerProviderErrorReported ==
    (pc = "done" /\ plan_response = Unbound)
      => /\ response.kind = "HTTPException"
         /\ response.detail.text = "Planner failed"
         /\ Len(calls) = 2

\* C25: the transcript of a run of a plan holds, after the plan entry, one
\* entry per step: for a tool step the entry tagged "tool_output:<name>" with
\* the result of run_tool, for a role step the entry tagged with the role
\* with the model's text; a tool step is dispatched to run_tool only, a role
\* step to ask() only.
C25_EntryShapePerStep ==
    (pc = "done" /\ ValidPlan)
      => /\ Returned
         /\ Len(response.transcript) = 1 + Len(PlanSteps)
         /\ \A k \in 1..Len(PlanSteps) :
               response.transcript[1 + k] = StepEntry(k)
         /\ Len(calls) = CallsBeforeSteps + Len(PlanSteps)
         /\ \A k \in 1..Len(PlanSteps) :
               DispatchOf(k).fn = IF IsToolStep(PlanSteps[k]) THEN "run_tool"
                                  ELSE "ask"

\* ------------------------------------------- the dispatch of one role step
\* The role a plan gives a step: one of the keys of ROLE_PROMPTS, another
\* text, null, or no role key at all.
StepRoles == {"writer", "reviewer", "tester", "qa", "Writer", "", None}
RoleStepInputs ==
    {[role |-> r, instruction |-> "explain"] : r \in StepRoles}
    \cup {[role |-> r] : r \in StepRoles}
    \cup {[instruction |-> "explain"], [note |-> "none"]}

\* what memory.get_context() returned for the step
Histories == {"", formatted_msg("planner", "json\n{steps}")}

RoleInit ==
    /\ roleStep \in RoleStepInputs
    /\ stepNumber \in 1..MaxSteps
    /\ rolePrompt = NoResponse
    /\ FlowIdle /\ MemIdle /\ ToolIdle /\ ConcIdle /\ WsIdle /\ SysIdle /\ RestIdle

\* lines 131-135: the prompt of the step is built and passed to ask()
DispatchRoleStep ==
    /\ rolePrompt = NoResponse
    /\ \E context \in Histories :
          rolePrompt' = RolePrompt(roleStep, stepNumber, context)
    /\ UNCHANGED <<roleStep, stepNumber>>
    /\ UNCHANGED <<flowVars, memVars, toolVars, runs, wsVars, sysVars, restVars>>

RoleSpec == RoleInit /\ [][DispatchRoleStep]_vars

\* C14: the system prompt of a role step whose role is a key of ROLE_PROMPTS
\* is that role's prompt; for any other role, and for a step without a role,
\* it is the "writer" prompt; a step without a role runs as "writer".
C14_WriterIsTheDefaultPersona ==
    (rolePrompt # NoResponse)
      => /\ rolePrompt.sys_prompt =
               IF "role" \in DOMAIN roleStep /\ roleStep.role \in DOMAIN ROLE_PROMPTS
               THEN ROLE_PROMPTS[roleStep.role]
               ELSE ROLE_PROMPTS["writer"]
         /\ "role" \notin DOMAIN roleStep => rolePrompt.role = "writer"

\* --------------------------------------------------- one call of run_tool
\* Names a plan may give as tool name: registered, advertised only, unknown.
ToolNames ==
    {"python_code_interpreter", "read_file", "finish_task", "get_git_status",
     "summarize_text", "make_api_request",
     "calculate_classification_metrics", "nope"}

\* the empty mapping {}
NoArgs == [k \in {} |-> Str("")]

\* Argument mappings a plan may give: right, wrong, missing, surplus.
ToolArgs ==
    {NoArgs,
     [code |-> Str("print(1)")], [code |-> Str("1/0")],
     [code |-> Str("raise SystemExit(3)")], [code |-> Num("1")],
     [cod |-> Str("print(1)")],
     [code |-> Str("print(1)"), timeout |-> Num("5")],
     [path |-> Str("notes.txt")], [path |-> Str("missing.txt")],
     [final_answer |-> Str("42")], [text |-> Str("abc")],
     [method |-> Str("GET"), url |-> Str("http://localhost")],
     [method |-> Str("GET"), url |-> Str("http://localhost"), body |-> Str("{}")]}

ToolInit ==
    /\ toolName \in ToolNames
    /\ toolArgs \in ToolArgs
    /\ toolResult = NoResponse
    /\ FlowIdle /\ MemIdle /\ RoleIdle /\ ConcIdle /\ WsIdle /\ SysIdle /\ RestIdle

\* result = run_tool(name, args)
RunTool ==
    /\ toolResult = NoResponse
    /\ toolResult' = run_tool(toolName, toolArgs)
    /\ UNCHANGED <<toolName, toolArgs>>
    /\ UNCHANGED <<flowVars, memVars, roleVars, runs, wsVars, sysVars, restVars>>

ToolSpec == ToolInit /\ [][RunTool]_vars

\* C15: every call of run_tool returns, and what it returns has a status
\* field.
C15_AlwaysAStatus ==
    (toolResult # NoResponse)
      => /\ toolResult.kind = "ok"
         /\ "status" \in DOMAIN toolResult.value

\* C28: a call of run_tool that names a tool of AVAILABLE_TOOLS is not
\* answered with the "not found" error.
C28_AdvertisedToolsAreImplemented ==
    (toolResult # NoResponse /\ toolName \in AVAILABLE_TOOLS)
      => toolResult # Ok(ToolNotFound)

\* ------------------------------- two requests to /agents/run_flow in flight
\* Each request runs run_flow with its own locals; the event loop switches
\* between them where run_flow awaits (lines 105, 109, 121, 135).
Runs == {1, 2}

PlanOf(steps) ==
    [wrap |-> "none",
     body |-> [kind |-> "json",
               value |-> [type |-> "dict", members |-> [steps |-> steps],
                          dumped |-> "{steps}"]]]

\* what the planner answers to a request
ConcResponses ==
    {[wrap |-> "none", body |-> [kind |-> "text"]],
     PlanOf(<<>>),
     PlanOf(<<[role |-> "writer", instruction |-> "explain"]>>),
     PlanOf(<<[tool_call |-> [name |-> "python_code_interpreter",
                              args |-> [code |-> Str("print(1)")]]],
              [role |-> "reviewer", instruction |-> "explain"]>>)}

ConcInit ==
    /\ runs = [r \in Runs |->
                 [pc |-> "start", planner_model |-> None,
                  plan_response |-> Unbound, response |-> NoResponse,
                  calls |-> <<>>, replies |-> <<>>]]
    /\ FlowIdle /\ MemIdle /\ ToolIdle /\ RoleIdle /\ WsIdle /\ SysIdle /\ RestIdle

ConcUnchanged == UNCHANGED <<flowVars, memVars, toolVars, roleVars, wsVars, sysVars, restVars>>

\* line 105 of request r
ConcPickPlannerModel(r) ==
    /\ runs[r].pc = "start"
    /\ \E meta \in MetaInputs :
          runs' = [runs EXCEPT ![r] =
                     [@ EXCEPT !.pc = "ask_planner",
                               !.planner_model = pick_model("planner", meta),
                               !.calls = Append(@, [fn |-> "pick_model",
                                                    role |-> "planner"])]]
    /\ ConcUnchanged

ConcAskPlanner(r) ==
    [fn |-> "ask", model |-> runs[r].planner_model, prompt |-> "planner"]

\* line 109 of request r raises
ConcPlannerAskFails(r) ==
    /\ runs[r].pc = "ask_planner"
    /\ runs' = [runs EXCEPT ![r] =
                  [@ EXCEPT !.pc = "done",
                            !.response = Raise("UnboundLocalError"),
                            !.calls = Append(@, ConcAskPlanner(r))]]
    /\ ConcUnchanged

\* lines 109-115 of request r: no step list is obtained
ConcPlanningFails(r) ==
    /\ runs[r].pc = "ask_planner"
    /\ \E raw \in ConcResponses :
          /\ Planning(raw).kind # "ok"
          /\ runs' = [runs EXCEPT ![r] =
                        [@ EXCEPT !.pc = "done",
                                  !.plan_response = raw,
                                  !.response = Planning(raw),
                                  !.calls = Append(@, ConcAskPlanner(r))]]
    /\ ConcUnchanged

\* lines 109-138 of request r: a plan is parsed and the execution stage runs
ConcPlanExecuted(r) ==
    /\ runs[r].pc = "ask_planner"
    /\ \E raw \in ConcResponses :
          /\ Planning(raw).kind = "ok"
          /\ \E asks \in [1..Len(Planning(raw).steps) -> AskOutcomes] :
             \E out \in ExecutionStage(Planning(raw),
                                       Append(runs[r].calls, ConcAskPlanner(r)),
                                       asks) :
                runs' = [runs EXCEPT ![r] =
                           [@ EXCEPT !.pc = "done",
                                     !.plan_response = raw,
                                     !.replies = asks,
                                     !.response = out.response,
                                     !.calls = out.calls]]
    /\ ConcUnchanged

ConcNext ==
    \E r \in Runs :
       \/ ConcPickPlannerModel(r)
       \/ ConcPlannerAskFails(r)
       \/ ConcPlanningFails(r)
       \/ ConcPlanExecuted(r)

ConcSpec == ConcInit /\ [][ConcNext]_vars

\* request r has obtained a plan with at least one step
HasPlan(r) ==
    /\ runs[r].plan_response # Unbound
    /\ Planning(runs[r].plan_response).kind = "ok"

Chars(text, times) == [text |-> text, times |-> times]
S(text) == Chars(text, 1)
CharsLen(c) == Len(c.text) * c.times

RECURSIVE Reverse(_)
Reverse(t) ==
    IF t = "" THEN "" ELSE Reverse(SubSeq(t, 2, Len(t))) \o SubSeq(t, 1, 1)

RECURSIVE StripLeft(_)
StripLeft(t) ==
    IF t # "" /\ SubSeq(t, 1, 1) = " " THEN StripLeft(SubSeq(t, 2, Len(t)))
    ELSE t

\* str.strip()
Strip(t) == Reverse(StripLeft(Reverse(StripLeft(t))))

\* The websocket routes of the application in the order they are added to
\* app.router: include_router(ws_ai_router) at main.py:132 adds the route of
\* ws_ai.py:49, the decorator at main.py:232 adds ai_websocket after it.
WebsocketRoutes ==
    <<[path |-> "/ws/ai", endpoint |-> "ws_ai"],
      [path |-> "/ws/ai", endpoint |-> "ai_websocket"]>>

\* the router hands a connection to the first route whose path matches
RouteOf(path) ==
    LET hits == SelectSeq(WebsocketRoutes, LAMBDA r : r.path = path)
    IN IF hits # <<>> THEN hits[1].endpoint ELSE None

\* What a client sends: a text that is no JSON, or the JSON text of a list or
\* of an object with the members given.
NotJson == [json |-> FALSE]
JsonList == [json |-> TRUE, value |-> [type |-> "list"]]
JsonObject(members) ==
    [json |-> TRUE, value |-> [type |-> "dict", members |-> members]]

ClientTexts ==
    {NotJson, JsonList,
     JsonObject([type |-> "user", content |-> S("Hello, world!")]),
     JsonObject([type |-> "user", content |-> S(" ab ")]),
     JsonObject([type |-> "user", content |-> S("  ")]),
     JsonObject([type |-> "user", content |-> Chars("A", 60000)]),
     JsonObject([type |-> "user", content |-> S("test"),
                 path |-> S("../../etc/passwd")]),
     JsonObject([type |-> "update", content |-> S("x")]),
     JsonObject([type |-> "ping", content |-> S("x")]),
     JsonObject([type |-> "user"]),
     JsonObject([prompt |-> S("hi"), role |-> "general"]),
     JsonObject([prompt |-> S("  ")]),
     JsonObject([prompt |-> S("hi"), role |-> "Planner",
                 model |-> "codegemma:2b"])}

\* main.py:203-214  AgentManager.handle_user_message
handle_user_message(content) ==
    LET c == Chars(Strip(content.text), content.times) IN
    IF c.text = "" THEN <<>>
    ELSE <<[type |-> "assistant", content |-> Chars(Reverse(c.text), c.times)]>>

\* main.py:245-267: one round of the loop of ai_websocket on a received
\* text: the messages sent, and whether the loop goes on
ai_websocket(text) ==
    IF ~text.json
    THEN [sent |-> <<[type |-> "error", content |-> S("Invalid JSON")]>>,
          open |-> TRUE]
    ELSE IF text.value.type # "dict"
            \/ ~({"type", "content"} \subseteq DOMAIN text.value.members)
    THEN [sent |-> <<>>, open |-> FALSE]
    ELSE LET msg == text.value.members IN
         IF msg.type = "user"
         THEN [sent |-> <<[type |-> "thinking", content |-> S("Thinking...")]>>
                        \o handle_user_message(msg.content),
               open |-> TRUE]
         ELSE IF msg.type = "update" THEN [sent |-> <<>>, open |-> TRUE]
         ELSE [sent |-> <<[type |-> "error",
                           content |-> S("Unsupported message type")]>>,
               open |-> TRUE]

\* ws_ai.py:9-14
DEFAULT_ROLES ==
    [completion |-> "deepseek-coder:latest", general |-> "dolphin-phi:latest",
     planner |-> "smollm:1.7b"]
FALLBACKS ==
    [completion |-> <<"deepseek-coder:latest", "codegemma:2b", "smollm:1.7b",
                      "dolphin-phi:latest">>,
     general |-> <<"dolphin-phi:latest", "smollm:1.7b",
                   "deepseek-coder:latest", "codegemma:2b">>,
     planner |-> <<"smollm:1.7b", "dolphin-phi:latest",
                   "deepseek-coder:latest", "codegemma:2b">>]

\* ws_ai.py:36-47, load_roles() finding no configuration file
ws_pick_model(role, explicit, avail) ==
    IF explicit # None /\ explicit \in Range(avail) THEN explicit
    ELSE LET r == Lower(IF role = None THEN "general" ELSE role)
             pref == Get(DEFAULT_ROLES, r, None)
             hits == SelectSeq(Get(FALLBACKS, r, <<>>),
                               LAMBDA m : m \in Range(avail))
         IN IF pref \in Range(avail) THEN pref
            ELSE IF hits # <<>> THEN hits[1]
            ELSE IF avail # <<>> THEN avail[1]
            ELSE IF pref # None THEN pref
            ELSE DEFAULT_ROLES["general"]

\* what GET /api/tags yields (ws_ai.py:26-34), and what the generate stream
\* yields: the tokens of the answer, or a connection error
Availables == {<<>>, <<"codegemma:2b">>, <<"codegemma:2b", "smollm:1.7b">>}
Streams == {Ok(<<>>), Ok(<<"Hi">>), Ok(<<"Hi", "!">>), Raise("ConnectError")}

\* ws_ai.py:55-95: the messages ws_ai sends for the first text it receives;
\* it closes the connection after them
ws_ai(init, avail, stream) ==
    IF ~init.json
    THEN <<[type |-> "error", message |-> S("invalid init json")]>>
    ELSE IF init.value.type # "dict"
    THEN <<[type |-> "error", message |-> S("AttributeError")]>>
    ELSE LET init_obj == init.value.members
             prompt == Strip(Get(init_obj, "prompt", S("")).text)
         IN IF prompt = ""
            THEN <<[type |-> "error", message |-> S("empty prompt")]>>
            ELSE <<[type |-> "start",
                    model |-> ws_pick_model(Get(init_obj, "role", "general"),
                                            Get(init_obj, "model", None),
                                            avail)]>>
                 \o (IF stream.kind = "ok"
                     THEN [i \in 1..Len(stream.value) |->
                              [type |-> "delta", token |-> stream.value[i]]]
                          \o <<[type |-> "end"]>>
                     ELSE <<[type |-> "error", message |-> S(stream.kind)]>>)

WsTextSeqs == UNION {[1..n -> ClientTexts] : n \in 0..MaxWsMessages}

WsInit ==
    /\ wsEndpoint = None
    /\ wsInbox \in WsTextSeqs
    /\ wsSent = <<>>
    /\ wsState = "connecting"
    /\ FlowIdle /\ MemIdle /\ ToolIdle /\ RoleIdle /\ ConcIdle /\ SysIdle /\ RestIdle

WsUnchanged == UNCHANGED <<flowVars, memVars, toolVars, roleVars, runs, sysVars, restVars>>

\* the client connects to /ws/ai; the endpoint accepts
WsConnect ==
    /\ wsState = "connecting"
    /\ wsEndpoint' = RouteOf("/ws/ai")
    /\ wsState' = "open"
    /\ UNCHANGED <<wsInbox, wsSent>>
    /\ WsUnchanged

\* the endpoint receives the next text and answers it
WsReceive ==
    /\ wsState = "open"
    /\ wsInbox # <<>>
    /\ wsInbox' = Tail(wsInbox)
    /\ IF wsEndpoint = "ws_ai"
       THEN /\ \E avail \in Availables, stream \in Streams :
                  wsSent' = Append(wsSent,
                                   [received |-> Head(wsInbox),
                                    sent |-> ws_ai(Head(wsInbox), avail, stream)])
            /\ wsState' = "closed"
       ELSE LET round == ai_websocket(Head(wsInbox)) IN
            /\ wsSent' = Append(wsSent, [received |-> Head(wsInbox),
                                         sent |-> round.sent])
            /\ wsState' = IF round.open THEN "open" ELSE "closed"
    /\ UNCHANGED wsEndpoint
    /\ WsUnchanged

\* the client has nothing more to send and disconnects: receive_text raises
\* WebSocketDisconnect
WsDisconnect ==
    /\ wsState = "open"
    /\ wsInbox = <<>>
    /\ wsState' = "closed"
    /\ UNCHANGED <<wsEndpoint, wsInbox, wsSent>>
    /\ WsUnchanged

WsNext == WsConnect \/ WsReceive \/ WsDisconnect

WsSpec == WsInit /\ [][WsNext]_vars

\* a JSON object with type "user" and a content that is not empty
IsUserMessage(text) ==
    /\ text.json
    /\ text.value.type = "dict"
    /\ {"type", "content"} \subseteq DOMAIN text.value.members
    /\ text.value.members.type = "user"
    /\ CharsLen(text.value.members.content) > 0

\* the content is longer than the input length limit, or the path holds "../"
IsDangerous(text) ==
    \/ CharsLen(text.value.members.content) > InputLengthLimit
    \/ /\ "path" \in DOMAIN text.value.members
       /\ Contains(text.value.members.path.text, "../")

\* C16: every user message with content that was sent on a connection is
\* read, and is answered by one "thinking" message followed by one
\* "assistant" message whose content is the content of the user message
\* reversed, before the next text is read.
C16_ThinkingThenReversed ==
    (wsState = "closed")
      => /\ \A i \in 1..Len(wsInbox) : ~IsUserMessage(wsInbox[i])
         /\ \A i \in 1..Len(wsSent) :
               IsUserMessage(wsSent[i].received)
                 => wsSent[i].sent =
                      <<[type |-> "thinking", content |-> S("Thinking...")],
                        [type |-> "assistant",
                         content |-> Chars(Reverse(wsSent[i].received.value.members.content.text),
                                           wsSent[i].received.value.members.content.times)]>>

\* C17: a user message that is too long, or whose path holds "../", is
\* answered by exactly one message, of type "error", whose content contains
\* "Security validation failed".
C17_DangerousInputRejected ==
    \A i \in 1..Len(wsSent) :
       (IsUserMessage(wsSent[i].received) /\ IsDangerous(wsSent[i].received))
         => /\ Len(wsSent[i].sent) = 1
            /\ wsSent[i].sent[1].type = "error"
            /\ "content" \in DOMAIN wsSent[i].sent[1]
            /\ Contains(wsSent[i].sent[1].content.text, "Security validation failed")

\* ------------------------------------------- one request to /system/run
\* system_router.py:21
WHITELIST ==
    {"git", "pip", "python", "node", "npm", "powershell", "cmd", "robocopy"}

\* str.lower() on the commands a client names
LowerCmd(cmd) == IF cmd = "Git" THEN "git" ELSE cmd

\* utils/security.py:26-35: texts that match DANGEROUS_PATTERNS (the
\* characters ; & | $ of the first pattern, and the lower-case, single-blank
\* instance of each of the others)
DangerousTexts ==
    {";", "&", "|", "$", "../..", "rm -rf", "del /s", "del /q",
     "format c:", "shutdown", "reboot", "net user", "reg delete"}

\* the characters shlex.quote leaves unquoted
SafeChars ==
    {"a", "b", "c", "d", "e", "f", "g", "h", "i", "j", "k", "l", "m", "n",
     "o", "p", "q", "r", "s", "t", "u", "v", "w", "x", "y", "z",
     "0", "1", "2", "3", "4", "5", "6", "7", "8", "9",
     "@", "%", "+", "=", ":", ",", ".", "/", "-", "_"}

\* shlex.quote(arg), for an arg without a single quote
Quote(arg) ==
    IF arg = "" THEN "''"
    ELSE IF \A i \in 1..Len(arg) : SubSeq(arg, i, i) \in SafeChars THEN arg
    ELSE "'" \o arg \o "'"

\* utils/security.py:37-63
sanitize_command_args(args) ==
    IF \E i \in 1..Len(args) : \E t \in DangerousTexts : Contains(args[i], t)
    THEN Raise("ValueError")
    ELSE Ok([i \in 1..Len(args) |-> Quote(args[i])])

\* arg.strip("'\"") of a quoted argument
Unquote(arg) ==
    IF Len(arg) >= 2 /\ SubSeq(arg, 1, 1) = "'" /\ SubSeq(arg, Len(arg), Len(arg)) = "'"
    THEN SubSeq(arg, 2, Len(arg) - 1)
    ELSE arg

\* utils/security.py:17-23, the extensions of the paths used here
ALLOWED_EXTENSIONS == {".py", ".md", ".txt"}
Suffix(path) ==
    IF Len(path) >= 3 /\ SubSeq(path, Len(path) - 2, Len(path) - 2) = "."
    THEN SubSeq(path, Len(path) - 2, Len(path))
    ELSE ""

\* utils/security.py:65-103
validate_file_path(file_path) ==
    IF Contains(file_path, "..") THEN Raise("ValueError")
    ELSE IF Suffix(file_path) \notin ALLOWED_EXTENSIONS THEN Raise("ValueError")
    ELSE Ok(file_path)

HTTPError(status, detail) == [status_code |-> status, detail |-> detail]
RunRes(ok, code, out) ==
    [status_code |-> 200, ok |-> ok, code |-> code, out |-> out]

RECURSIVE Join(_)
Join(args) ==
    IF args = <<>> THEN ""
    ELSE IF Len(args) = 1 THEN args[1]
    ELSE args[1] \o " " \o Join(Tail(args))

\* what subprocess.run does: the return code of the process, or an OSError
ProcessOutcomes == {Ok(0), Ok(1), Raise("OSError")}

\* system_router.py:41-70, the body of system_run: the responses it can
\* give and the argument lists it starts a process with
system_run(req, cfg) ==
    LET mode == IF Get(cfg, "mode", None) = None THEN "Power-User" ELSE cfg.mode
        base == LowerCmd(req.cmd)
        sanitized_args == sanitize_command_args(req.args)
        none == <<>>
    IN IF mode # "Power-User"
       THEN {[res |-> HTTPError(403, "Power-User mode required"), spawned |-> none]}
       ELSE IF base \notin WHITELIST
       THEN {[res |-> HTTPError(400, "Command not allowed"), spawned |-> none]}
       ELSE IF sanitized_args.kind # "ok"
       THEN {[res |-> HTTPError(400, "Security validation failed"), spawned |-> none]}
       ELSE IF req.cwd # None /\ req.cwd # ""
               /\ validate_file_path(req.cwd).kind # "ok"
       THEN {[res |-> HTTPError(400, "Invalid working directory"), spawned |-> none]}
       ELSE IF req.dry
       THEN {[res |-> RunRes(TRUE, 0, "DRY: " \o base \o " "
                                      \o Join(sanitized_args.value)),
              spawned |-> none]}
       ELSE LET argv == <<req.cmd>> \o [i \in 1..Len(sanitized_args.value) |->
                                           Unquote(sanitized_args.value[i])]
            IN {[res |-> IF p.kind = "ok" THEN RunRes(p.value = 0, p.value, "")
                         ELSE HTTPError(500, "exec error"),
                 spawned |-> <<argv>>] : p \in ProcessOutcomes}

\* The function the route decorator of system_router.py:39 receives is what
\* require_safe_execution returns: wrapper(*args, **kwargs) of
\* utils/security.py:201.  The framework takes the parameters of the
\* endpoint from the signature of that function.
EndpointParams == {"args", "kwargs"}

\* POST /system/run: a parameter that is a model is read from the JSON body,
\* any other is a query parameter that the request must hold; wrapper passes
\* what it is called with on to system_run(req)
PostSystemRun(request, cfg) ==
    IF EndpointParams = {"req"} THEN system_run(request.body, cfg)
    ELSE IF ~(EndpointParams \subseteq request.query)
    THEN {[res |-> HTTPError(422, "Field required"), spawned |-> <<>>]}
    ELSE {[res |-> HTTPError(500, "TypeError"), spawned |-> <<>>]}

Cfgs == {[mode |-> "Power-User"], [mode |-> "Standard"], [theme |-> "dark"]}
Cmds == {"git", "Git", "rm"}
Args == {"status", "hello world", "a;b"}
ArgSeqs == UNION {[1..n -> Args] : n \in 0..MaxArgs}
Cwds == {None, "/tmp", "../x", "proj.py"}
RunReqs ==
    {[cmd |-> c, args |-> a, cwd |-> w, dry |-> d] :
        c \in Cmds, a \in ArgSeqs, w \in Cwds, d \in BOOLEAN}
Queries == {{}, {"args", "kwargs"}}

SysInit ==
    /\ sysCfg \in Cfgs
    /\ sysReq \in {[query |-> q, body |-> b] : q \in Queries, b \in RunReqs}
    /\ sysRes = NoResponse
    /\ spawned = <<>>
    /\ FlowIdle /\ MemIdle /\ ToolIdle /\ RoleIdle /\ ConcIdle /\ WsIdle /\ RestIdle

\* the request is handled
HandleSystemRun ==
    /\ sysRes = NoResponse
    /\ \E out \in PostSystemRun(sysReq, sysCfg) :
          /\ sysRes' = out.res
          /\ spawned' = out.spawned
    /\ UNCHANGED <<sysCfg, sysReq>>
    /\ UNCHANGED <<flowVars, memVars, toolVars, roleVars, runs, wsVars, restVars>>

SysSpec == SysInit /\ [][HandleSystemRun]_vars

ModeOk == Get(sysCfg, "mode", "Power-User") = "Power-User"
CmdOk == LowerCmd(sysReq.body.cmd) \in WHITELIST
ArgsOk == sanitize_command_args(sysReq.body.args).kind = "ok"

\* C18: a process is started only if the mode is Power-User, the command is
\* whitelisted, the arguments pass sanitization and dry is false; and the
\* answer is 403 if the mode is wrong, else 400 "Command not allowed" if the
\* command is not whitelisted, else 400 "Security validation failed" if an
\* argument is dangerous, else, if dry is set, a result with ok = true whose
\* out starts with "DRY:", no process being started in any of these cases.
C18_GatesInOrder ==
    (sysRes # NoResponse)
      => /\ spawned # <<>> => (ModeOk /\ CmdOk /\ ArgsOk /\ ~sysReq.body.dry)
         /\ IF ~ModeOk THEN sysRes.status_code = 403
            ELSE IF ~CmdOk
            THEN sysRes = HTTPError(400, "Command not allowed")
            ELSE IF ~ArgsOk
            THEN sysRes = HTTPError(400, "Security validation failed")
            ELSE IF sysReq.body.dry
            THEN /\ sysRes.status_code = 200
                 /\ sysRes.ok
                 /\ SubSeq(sysRes.out, 1, 4) = "DRY:"
            ELSE TRUE

\* ------------------------------------------------- a request to ai_route
\* ai_providers.py:205-234, the providers reached over the network
RemoteProviders == {"openai", "anthropic", "openai_compat"}

\* utils/security.py:180-195, validate_ai_prompt on the prompts used here
validate_ai_prompt(prompt) ==
    IF Contains(prompt, "ignore previous instructions")
    THEN Raise("ValueError")
    ELSE Ok(prompt)

\* ai_providers.py:102-107
RouteRes(provider, cached) ==
    [status_code |-> 200, provider |-> provider, cached |-> cached]

\* ai_providers.py:194-236: the answer (None if there is none) and whether
\* call_ollama, call_openai or call_anthropic was called for the provider
try_provider(provider, cfg, env) ==
    IF provider = "ollama"
    THEN IF env.ollama = "nomodel" THEN [ans |-> None, called |-> FALSE]
         ELSE [ans |-> IF env.ollama = "ok" THEN "ollama" ELSE None,
               called |-> TRUE]
    ELSE IF provider \in RemoteProviders
    THEN IF provider \notin env.keys THEN [ans |-> None, called |-> FALSE]
         ELSE [ans |-> IF env.remote = "ok"
                       THEN IF provider = "openai_compat" THEN "moonshot"
                            ELSE provider
                       ELSE None,
               called |-> TRUE]
    ELSE [ans |-> None, called |-> FALSE]

\* ai_providers.py:248
Offline(cfg) == cfg.offlineOnly \/ ~cfg.allowExternalAI

\* ai_providers.py:257-265
RouteOrder(req, cfg) ==
    LET order == IF req.provider # None THEN <<req.provider>>
                 ELSE IF ~Offline(cfg) THEN cfg.priority ELSE <<"ollama">>
    IN IF Offline(cfg) /\ "ollama" \notin Range(order)
       THEN <<"ollama">> \o order
       ELSE order

\* ai_providers.py:267-275, the loop over order from its i-th element
RECURSIVE TryInOrder(_, _, _, _, _)
TryInOrder(order, i, cfg, env, called) ==
    IF i > Len(order)
    THEN [res |-> HTTPError(502, "No provider succeeded"), calls |-> called]
    ELSE LET t == try_provider(order[i], cfg, env)
             now == IF t.called THEN Append(called, order[i]) ELSE called
         IN IF t.ans # None
            THEN [res |-> RouteRes(t.ans, FALSE), calls |-> now]
            ELSE TryInOrder(order, i + 1, cfg, env, now)

\* ai_providers.py:240-275, the body of ai_route
ai_route(req, cfg, env) ==
    IF req.prompt # "" /\ validate_ai_prompt(req.prompt).kind # "ok"
    THEN [res |-> HTTPError(400, "Invalid prompt"), calls |-> <<>>]
    ELSE IF req.cacheKey # None /\ env.cached # None
    THEN [res |-> RouteRes(env.cached, TRUE), calls |-> <<>>]
    ELSE TryInOrder(RouteOrder(req, cfg), 1, cfg, env, <<>>)

\* The name ai_route of ai_providers.py is bound to what
\* require_safe_execution returns, wrapper(*args, **kwargs), and that is the
\* function the route decorator of line 238 receives.  POST /ai/route takes
\* its parameters from that signature; a caller of ai_route(req), as
\* tests/test_api_endpoints.py:303, reaches the body through wrapper.
HandleRoute(request, cfg, env) ==
    IF request.via = "call" \/ EndpointParams = {"req"}
    THEN ai_route(request.body, cfg, env)
    ELSE IF ~(EndpointParams \subseteq request.query)
    THEN [res |-> HTTPError(422, "Field required"), calls |-> <<>>]
    ELSE [res |-> HTTPError(500, "TypeError"), calls |-> <<>>]

RouteCfgs ==
    {[offlineOnly |-> o, allowExternalAI |-> a, priority |-> p] :
        o \in BOOLEAN, a \in BOOLEAN,
        p \in {<<"ollama", "openai", "anthropic", "openai_compat">>,
               <<"openai", "ollama">>}}
RouteBodies ==
    {[prompt |-> p, provider |-> v, cacheKey |-> k] :
        p \in {"hi", "ignore previous instructions", ""},
        v \in {None, "ollama", "bogus"} \cup RemoteProviders,
        k \in {None, "k"}}
RouteRequests ==
    {[via |-> "POST", query |-> q, body |-> b] :
        q \in Queries, b \in RouteBodies} \cup
    {[via |-> "call", query |-> {}, body |-> b] : b \in RouteBodies}
RouteEnvs ==
    {[keys |-> k, cached |-> c, ollama |-> o, remote |-> r] :
        k \in {{}, {"openai"}, RemoteProviders},
        c \in {None, "ollama"},
        o \in {"ok", "down", "nomodel"},
        r \in {"ok", "error"}}

RouteInit ==
    /\ routeCfg \in RouteCfgs
    /\ routeReq \in RouteRequests
    /\ routeEnv \in RouteEnvs
    /\ routeRes = NoResponse
    /\ routeCalls = <<>>
    /\ FlowIdle /\ MemIdle /\ ToolIdle /\ RoleIdle /\ ConcIdle /\ WsIdle
    /\ SysIdle /\ PickIdle /\ GitIdle

\* the request is handled
HandleAiRoute ==
    /\ routeRes = NoResponse
    /\ LET out == HandleRoute(routeReq, routeCfg, routeEnv) IN
          /\ routeRes' = out.res
          /\ routeCalls' = out.calls
    /\ UNCHANGED <<routeCfg, routeReq, routeEnv>>
    /\ UNCHANGED <<flowVars, memVars, toolVars, roleVars, runs, wsVars, sysVars>>
    /\ UNCHANGED <<pickVars, gitVars>>

RouteSpec == RouteInit /\ [][HandleAiRoute]_vars

\* C29: with a configuration that is offline (ai.offlineOnly set, or
\* network.allowExternalAI not set) no completion is requested from
\* openai, anthropic or openai_compat, whatever the request names: every
\* call made for the request goes to ollama.
C29_OfflineNeverCallsRemote ==
    (routeRes # NoResponse /\ Offline(routeCfg))
      => \A i \in 1..Len(routeCalls) : routeCalls[i] = "ollama"

\* ------------------------------------------ the watcher of git_sync.py
MaxWatchRequests == 3
MaxTime == 4

\* git_sync.py:89, _debounce_time in seconds
debounce_time == 2

\* git_sync.py:97-110: the global _observer and the Observer threads left
\* running after the call
ensure_watcher(obs, active, enable) ==
    IF enable
    THEN IF obs # None THEN [observer |-> obs, active |-> active]
         ELSE [observer |-> "Observer", active |-> active + 1]
    ELSE IF obs # None THEN [observer |-> None, active |-> active - 1]
         ELSE [observer |-> obs, active |-> active]

\* git_sync.py:265-278, the body of git_watch: the response, the watcher,
\* and the ticker threads after it
git_watch(req, repo, obs, active, threads) ==
    IF repo = ""
    THEN [res |-> HTTPError(400, "repoPath not set"),
          observer |-> obs, active |-> active, tickers |-> threads]
    ELSE LET w == ensure_watcher(obs, active, req.enable) IN
         [res |-> [status_code |-> 200, ok |-> TRUE, watching |-> req.enable],
          observer |-> w.observer,
          active |-> w.active,
          tickers |-> IF req.enable THEN Append(threads, "loop")
                      ELSE threads]

\* The name git_watch of git_sync.py is bound to what require_safe_execution
\* returns, wrapper(*args, **kwargs), and that is the function the route
\* decorator of line 263 receives.  POST /git/watch takes its parameters
\* from that signature; a caller of git_watch(req) reaches the body through
\* wrapper.
HandleWatch(request, repo, obs, active, threads) ==
    IF request.via = "call" \/ EndpointParams = {"req"}
    THEN git_watch(request.body, repo, obs, active, threads)
    ELSE [res |-> IF EndpointParams \subseteq request.query
                  THEN HTTPError(500, "TypeError")
                  ELSE HTTPError(422, "Field required"),
          observer |-> obs, active |-> active, tickers |-> threads]

WatchRequests ==
    {[via |-> "POST", query |-> q, body |-> [enable |-> e]] :
        q \in Queries, e \in BOOLEAN} \cup
    {[via |-> "call", query |-> {}, body |-> [enable |-> e]] : e \in BOOLEAN}

GitInit ==
    /\ gitRepo \in {"", "/repo"}
    /\ observer = None
    /\ observersActive = 0
    /\ tickers = <<>>
    /\ last_event_ts = 0
    /\ gitNow = 1
    /\ pushes = 0
    /\ gitRes = NoResponse
    /\ watchRequests = 0
    /\ FlowIdle /\ MemIdle /\ ToolIdle /\ RoleIdle /\ ConcIdle /\ WsIdle
    /\ SysIdle /\ PickIdle /\ RouteIdle

GitUnchanged ==
    UNCHANGED <<flowVars, memVars, toolVars, roleVars, runs, wsVars, sysVars,
                pickVars, routeVars>>

\* a request is handled
GitWatch ==
    /\ watchRequests < MaxWatchRequests
    /\ \E request \in WatchRequests :
          LET out == HandleWatch(request, gitRepo, observer, observersActive,
                                 tickers) IN
          /\ gitRes' = out.res
          /\ observer' = out.observer
          /\ observersActive' = out.active
          /\ tickers' = out.tickers
    /\ watchRequests' = watchRequests + 1
    /\ UNCHANGED <<gitRepo, last_event_ts, gitNow, pushes>>
    /\ GitUnchanged

\* lines 92-95: a running Observer reports a file event to Handler
FileEvent ==
    /\ observersActive > 0
    /\ last_event_ts' = gitNow
    /\ pushes' = 0
    /\ UNCHANGED <<gitRepo, observer, observersActive, tickers, gitNow, gitRes,
                   watchRequests>>
    /\ GitUnchanged

\* a second passes
Second ==
    /\ gitNow < MaxTime
    /\ gitNow' = gitNow + 1
    /\ UNCHANGED <<gitRepo, observer, observersActive, tickers, last_event_ts,
                   pushes, gitRes, watchRequests>>
    /\ GitUnchanged

\* lines 273-276 and 115-119: a ticker thread wakes up, ends if there is no
\* observer, and else runs the tests of tick_auto
TickerLoop(t) ==
    /\ tickers[t] = "loop"
    /\ tickers' =
          [tickers EXCEPT ![t] =
              IF observer = None THEN "exited"
              ELSE IF gitNow - last_event_ts < debounce_time THEN "loop"
              ELSE IF last_event_ts = 0 THEN "loop"
              ELSE "push"]
    /\ UNCHANGED <<gitRepo, observer, observersActive, last_event_ts, gitNow,
                   pushes, gitRes, watchRequests>>
    /\ GitUnchanged

\* lines 120-124: the thread that passed the tests resets the time stamp
\* and calls do_commit_push
TickerPush(t) ==
    /\ tickers[t] = "push"
    /\ last_event_ts' = 0
    /\ pushes' = pushes + 1
    /\ tickers' = [tickers EXCEPT ![t] = "loop"]
    /\ UNCHANGED <<gitRepo, observer, observersActive, gitNow, gitRes,
                   watchRequests>>
    /\ GitUnchanged

GitNext ==
    \/ GitWatch
    \/ FileEvent
    \/ Second
    \/ \E t \in 1..Len(tickers) : TickerLoop(t)
    \/ \E t \in 1..Len(tickers) : TickerPush(t)

GitSpec == GitInit /\ [][GitNext]_vars

ActiveTickers == {t \in 1..Len(tickers) : tickers[t] # "exited"}
OneObserver == observersActive <= 1
OneTicker == Cardinality(ActiveTickers) <= 1
OnePushPerBurst == pushes <= 1

\* C30: whatever enable and disable requests were made, at most one
\* Observer and at most one ticker thread are running, and do_commit_push
\* is called at most once by the ticker after the latest file event.
C30_OneObserverOneTicker ==
    /\ OneObserver
    /\ OneTicker
    /\ OnePushPerBurst

=============================================================================
